---- MODULE Spec2Model ----
(***************************************************************************)
(* Model of the JSON-RPC method table and dispatcher of handler.go:        *)
(* handlers.register builds the table h from handler objects, and          *)
(* handlers.handleReader / handlers.handle dispatch one request against    *)
(* it.  A dispatch is a process p walking through the statements of        *)
(* handle: lookup, arity check, parameter decode loop, invocation,         *)
(* notification check and response.                                        *)
(*                                                                         *)
(* Go values are modelled as sequences of strings: <<>> is nil (or the     *)
(* zero reflect.Value), <<"int", "5">> the int 5, <<"error", t>> an error  *)
(* whose Error() text is t.  A pointer is <<>> (nil) or <<v>>.  Go indexes *)
(* (errOut, valOut, i) keep their 0-based values; the TLA+ sequence index  *)
(* is the Go index plus one.                                               *)
(*                                                                         *)
(* The registered callables are taken to return normally (a failure is     *)
(* reported through the error return); the only panics modelled are those  *)
(* of handle's own statements.                                             *)
(***************************************************************************)
EXTENDS Integers, Sequences, FiniteSets, TLC

(* ---------------------------- bounds ----------------------------------- *)

\* number of dispatches the transport may have open (each with its own
\* request and its own sink)
NumProcs == 2
\* longest params list of a request
MaxParams == 2

Procs == 1..NumProcs

(* -------------------------- program constants -------------------------- *)

rpcParseError == -32700
rpcMethodNotFound == -32601
rpcInvalidParams == -32602

\* context.Context's reflect.Type
contextType == "context.Context"
errorType == "error"

\* the zero reflect.Value / a nil interface
Nil == <<>>

(* ------------------------- handler objects ----------------------------- *)

\* The method sets of the objects handed to register, as reflect shows them:
\* methods sorted by name, In[1] the receiver, then the declared inputs.
ObjA ==
  << [Name |-> "Add",  In |-> <<"recv", "int", "int">>,        Out |-> <<"int", "error">>],
     [Name |-> "Get",  In |-> <<"recv", contextType>>,         Out |-> <<"int">>],
     [Name |-> "Note", In |-> <<"recv", contextType, "string">>, Out |-> <<"error">>],
     [Name |-> "Ping", In |-> <<"recv">>,                      Out |-> << >>] >>

ObjB ==
  << [Name |-> "Add",  In |-> <<"recv", "string">>,            Out |-> <<"error", "int">>],
     [Name |-> "Put",  In |-> <<"recv", contextType, "string", "int">>, Out |-> <<"error">>] >>

Objects == {"A", "B"}
Namespaces == {"math", "sys"}

MethodsOf(r) == IF r = "A" THEN ObjA ELSE ObjB

(* ----------------------------- register -------------------------------- *)

RECURSIVE scanOut(_, _, _)
\* processFuncOut: the positions of the value and of the error among the
\* declared returns, -1 when the callable has none.
scanOut(out, k, acc) ==
  IF k > Len(out) THEN acc
  ELSE IF out[k] = errorType
       THEN scanOut(out, k + 1, [acc EXCEPT !.errOut = k - 1])
       ELSE scanOut(out, k + 1, [acc EXCEPT !.valOut = k - 1])

processFuncOut(out) == scanOut(out, 1, [valOut |-> -1, errOut |-> -1])

\* the descriptor with the context input counted among the parameters
descriptor_CountCtx(r, method) ==
  LET NumIn  == Len(method.In)
      hasCtx == IF NumIn >= 2 /\ method.In[2] = contextType THEN 1 ELSE 0
      ins    == NumIn - 1
      recvs  == [k \in 1..ins |-> method.In[k + 1]]
      outs   == processFuncOut(method.Out)
  IN [paramReceivers |-> recvs,
      nParams        |-> ins,
      handlerFunc    |-> <<r, method.Name>>,
      receiver       |-> <<r>>,
      hasCtx         |-> hasCtx,
      errOut         |-> outs.errOut,
      valOut         |-> outs.valOut]

\* the body of register's loop: the descriptor of one method
descriptor(r, method) ==
  LET NumIn  == Len(method.In)
      hasCtx == IF NumIn >= 2 /\ method.In[2] = contextType THEN 1 ELSE 0
      ins    == NumIn - 1 - hasCtx
      recvs  == [k \in 1..ins |-> method.In[k + 1 + hasCtx]]
      outs   == processFuncOut(method.Out)
  IN [paramReceivers |-> recvs,
      nParams        |-> ins,
      handlerFunc    |-> <<r, method.Name>>,
      receiver       |-> <<r>>,
      hasCtx         |-> hasCtx,
      errOut         |-> outs.errOut,
      valOut         |-> outs.valOut]

RECURSIVE registerFrom_KeepFirst(_, _, _, _)
\* registration that leaves an entry already present under the key in place
registerFrom_KeepFirst(tbl, namespace, r, k) ==
  IF k > Len(MethodsOf(r)) THEN tbl
  ELSE LET method == MethodsOf(r)[k]
           key    == namespace \o "." \o method.Name
       IN registerFrom_KeepFirst(tbl @@ (key :> descriptor(r, method)), namespace, r, k + 1)

RECURSIVE registerFrom(_, _, _, _)
registerFrom(tbl, namespace, r, k) ==
  IF k > Len(MethodsOf(r)) THEN tbl
  ELSE LET method == MethodsOf(r)[k]
           key    == namespace \o "." \o method.Name
       IN registerFrom((key :> descriptor(r, method)) @@ tbl, namespace, r, k + 1)

register(tbl, namespace, r) == registerFrom(tbl, namespace, r, 1)

\* the zero rpcHandler a failed map lookup yields
ZeroHandler ==
  [paramReceivers |-> << >>, nParams |-> 0, handlerFunc |-> Nil, receiver |-> Nil,
   hasCtx |-> 0, errOut |-> 0, valOut |-> 0]

(* ------------------------- requests and values ------------------------- *)

\* request.ID is a *int64: nil for a notification
IDs == {Nil, <<0>>, <<7>>}

\* raw parameter texts: a JSON number, a JSON string, and a truncated value
Raws == {"2", "\"a\"", "{"}

MethodNames ==
  {ns \o "." \o m : ns \in Namespaces, m \in {"Add", "Get", "Note", "Ping", "Put"}}
    \cup {"math.Subtract", "Add"}

ParamLists == UNION {[1..n -> [data : Raws]] : n \in 0..MaxParams}

Requests == [Jsonrpc : {"2.0"}, ID : IDs, Method : MethodNames, Params : ParamLists]

\* var req request
ZeroRequest == [Jsonrpc |-> "", ID |-> Nil, Method |-> "", Params |-> << >>]

\* What handleReader may read: the encoding of a request, or bytes whose
\* decoding fails and leaves req as far as it was filled (nothing, or the id).
Inputs ==
  [ok : {TRUE}, req : Requests]
    \cup [ok : {FALSE}, req : {ZeroRequest, [ZeroRequest EXCEPT !.ID = <<7>>]}]

\* the ambient context handed to the entry point
ctx == <<"ctx", "background">>

ErrTexts == {"boom", ""}

\* the values a callable may return for a declared return type
ReturnsOf(type) ==
  IF type = errorType
  THEN {Nil} \cup {<<"error", t>> : t \in ErrTexts}
  ELSE {<<type, "0">>, <<type, "5">>}

\* json.Decoder.Decode of one raw parameter into a fresh value of the type
jsonDecode(type, data) ==
  IF data = "2" /\ type = "int" THEN [err |-> Nil, val |-> <<"int", "2">>]
  ELSE IF data = "\"a\"" /\ type = "string" THEN [err |-> Nil, val |-> <<"string", "a">>]
  ELSE IF data = "{" THEN [err |-> <<"error", "unexpected EOF">>, val |-> Nil]
  ELSE [err |-> <<"error", "cannot unmarshal into Go value of type " \o type>>, val |-> Nil]

\* the encoding with omitempty dropping a zero number as well as nil
jsonEncode_OmitZero(resp) ==
  [jsonrpc |-> resp.Jsonrpc, id |-> resp.ID]
    @@ (IF resp.Result # Nil /\ resp.Result[2] # "0" THEN [result |-> resp.Result] ELSE << >>)
    @@ (IF resp.Error # Nil
        THEN [error |-> [code |-> resp.Error[1].Code, message |-> resp.Error[1].Message]]
        ELSE << >>)

\* the response struct and its JSON encoding: result and error carry
\* omitempty, so a nil Result and a nil Error leave no field behind
jsonEncode(resp) ==
  [jsonrpc |-> resp.Jsonrpc, id |-> resp.ID]
    @@ (IF resp.Result # Nil THEN [result |-> resp.Result] ELSE << >>)
    @@ (IF resp.Error # Nil
        THEN [error |-> [code |-> resp.Error[1].Code, message |-> resp.Error[1].Message]]
        ELSE << >>)

\* the error callback handed to handle: it answers with an error response
\* unless the request is a notification
rpcError(r, code, err) ==
  IF r.ID = Nil THEN << >>
  ELSE << jsonEncode([Jsonrpc |-> "2.0", ID |-> r.ID[1], Result |-> Nil,
                      Error |-> <<[Code |-> code, Message |-> err[2]]>>]) >>

(* ------------------------ the statements of handle --------------------- *)

\* lookup with the ok flag ignored
lookup_NoMiss(tbl, m) ==
  IF m \in DOMAIN tbl
  THEN [handler |-> tbl[m], ok |-> TRUE, tbl |-> tbl]
  ELSE [handler |-> ZeroHandler, ok |-> TRUE, tbl |-> tbl]

\* lookup that inserts the zero descriptor on a miss
lookup_Insert(tbl, m) ==
  IF m \in DOMAIN tbl
  THEN [handler |-> tbl[m], ok |-> TRUE, tbl |-> tbl]
  ELSE [handler |-> ZeroHandler, ok |-> FALSE, tbl |-> (m :> ZeroHandler) @@ tbl]

\* handler, ok := h[req.Method]: a read of the map
lookup(tbl, m) ==
  IF m \in DOMAIN tbl
  THEN [handler |-> tbl[m], ok |-> TRUE, tbl |-> tbl]
  ELSE [handler |-> ZeroHandler, ok |-> FALSE, tbl |-> tbl]

\* arity check that only rejects too few parameters
arityMismatch_TooFew(r, hd) == Len(r.Params) < hd.nParams

\* len(req.Params) != handler.nParams
arityMismatch(r, hd) == Len(r.Params) # hd.nParams

\* the argument list with the context slot left unfilled
makeCallParams_NoCtx(hd) ==
  [k \in 1..(1 + hd.hasCtx + hd.nParams) |-> IF k = 1 THEN hd.receiver ELSE Nil]

\* callParams := make(...); callParams[0] = receiver; callParams[1] = ctx
makeCallParams(hd) ==
  [k \in 1..(1 + hd.hasCtx + hd.nParams) |->
     IF k = 1 THEN hd.receiver
     ELSE IF k = 2 /\ hd.hasCtx = 1 THEN ctx
     ELSE Nil]

\* decode with the decoder's error dropped
decodeParam_IgnoreErr(r, hd, idx) ==
  [err |-> Nil, val |-> jsonDecode(hd.paramReceivers[idx + 1], r.Params[idx + 1].data).val]

\* one turn of the decode loop for Go index idx
decodeParam(r, hd, idx) == jsonDecode(hd.paramReceivers[idx + 1], r.Params[idx + 1].data)

\* handler.handlerFunc.Call: the lists of return values the callable may give
callResults(hd) ==
  LET r    == hd.handlerFunc[1]
      name == hd.handlerFunc[2]
      out  == (CHOOSE k \in 1..Len(MethodsOf(r)) : MethodsOf(r)[k].Name = name)
      Out  == MethodsOf(r)[out].Out
  IN {cr \in [1..Len(Out) -> UNION {ReturnsOf(Out[k]) : k \in 1..Len(Out)}] :
        \A k \in 1..Len(Out) : cr[k] \in ReturnsOf(Out[k])}

\* response with another error code
makeResponse_Code(r, hd, cr) ==
  LET resp0 == [Jsonrpc |-> "2.0", ID |-> r.ID[1], Result |-> Nil, Error |-> Nil]
      resp1 == IF hd.errOut # -1 /\ cr[hd.errOut + 1] # Nil
               THEN [resp0 EXCEPT !.Error = <<[Code |-> -32603, Message |-> cr[hd.errOut + 1][2]]>>]
               ELSE resp0
  IN IF hd.valOut # -1 THEN [resp1 EXCEPT !.Result = cr[hd.valOut + 1]] ELSE resp1

\* response whose ID is left at its zero value
makeResponse_NoID(r, hd, cr) ==
  LET resp0 == [Jsonrpc |-> "2.0", ID |-> 0, Result |-> Nil, Error |-> Nil]
      resp1 == IF hd.errOut # -1 /\ cr[hd.errOut + 1] # Nil
               THEN [resp0 EXCEPT !.Error = <<[Code |-> 1, Message |-> cr[hd.errOut + 1][2]]>>]
               ELSE resp0
  IN IF hd.valOut # -1 THEN [resp1 EXCEPT !.Result = cr[hd.valOut + 1]] ELSE resp1

\* the response built after the call
makeResponse(r, hd, cr) ==
  LET resp0 == [Jsonrpc |-> "2.0", ID |-> r.ID[1], Result |-> Nil, Error |-> Nil]
      resp1 == IF hd.errOut # -1 /\ cr[hd.errOut + 1] # Nil
               THEN [resp0 EXCEPT !.Error = <<[Code |-> 1, Message |-> cr[hd.errOut + 1][2]]>>]
               ELSE resp0
  IN IF hd.valOut # -1 THEN [resp1 EXCEPT !.Result = cr[hd.valOut + 1]] ELSE resp1

\* json.Marshal fails on a channel
encodable(resp) == resp.Result = Nil \/ resp.Result[1] # "chan"

\* respond without the notification check, the ID read as a plain int64
respond_NoCheck(r, hd, cr) ==
  LET r0 == [r EXCEPT !.ID = IF @ = Nil THEN <<0>> ELSE @]
  IN IF encodable(makeResponse(r0, hd, cr)) THEN << jsonEncode(makeResponse(r0, hd, cr)) >>
     ELSE << >>

\* what handle writes to w after the call: nothing for a notification
respond(r, hd, cr) ==
  IF r.ID = Nil THEN << >>
  ELSE IF encodable(makeResponse(r, hd, cr)) THEN << jsonEncode(makeResponse(r, hd, cr)) >>
  ELSE << >>

(* ------------------------------- state --------------------------------- *)

VARIABLES
  h,            \* the handlers table
  pc,           \* pc[p]: where dispatch p stands
  req,          \* req[p]: its request
  handler,      \* handler[p]: the descriptor copied out of the table
  callParams,   \* callParams[p]
  i,            \* i[p]: the decode loop's index
  callResult,   \* callResult[p]
  sink,         \* sink[p]: what has been written to p's writer w
  errCalls,     \* errCalls[p]: the calls of the rpcError callback
  calls         \* calls[p]: the argument lists the callable was invoked with

vars == <<h, pc, req, handler, callParams, i, callResult, sink, errCalls, calls>>

Init ==
  /\ h = << >>
  /\ pc = [p \in Procs |-> "idle"]
  /\ req = [p \in Procs |-> ZeroRequest]
  /\ handler = [p \in Procs |-> ZeroHandler]
  /\ callParams = [p \in Procs |-> << >>]
  /\ i = [p \in Procs |-> 0]
  /\ callResult = [p \in Procs |-> << >>]
  /\ sink = [p \in Procs |-> << >>]
  /\ errCalls = [p \in Procs |-> << >>]
  /\ calls = [p \in Procs |-> << >>]

\* the error callback left uncalled for a notification
Report_SkipNotification(p, code, err) ==
  IF req'[p].ID = Nil
  THEN UNCHANGED <<errCalls, sink>>
  ELSE /\ errCalls' = [errCalls EXCEPT ![p] = Append(@, [w |-> p, req |-> req'[p], code |-> code, err |-> err])]
       /\ sink' = [sink EXCEPT ![p] = @ \o rpcError(req'[p], code, err)]

\* one call of the error callback: recorded, and its answer written to w
Report(p, code, err) ==
  /\ errCalls' = [errCalls EXCEPT ![p] = Append(@, [w |-> p, req |-> req'[p], code |-> code, err |-> err])]
  /\ sink' = [sink EXCEPT ![p] = @ \o rpcError(req'[p], code, err)]

\* registration: a startup step, taken while no dispatch is open
Register(namespace, r) ==
  /\ \A p \in Procs : pc[p] = "idle"
  /\ h' = register(h, namespace, r)
  /\ UNCHANGED <<pc, req, handler, callParams, i, callResult, sink, errCalls, calls>>

\* handleReader with the return after rpcError missing
HandleReader_NoReturn(p, in) ==
  /\ pc[p] = "idle"
  /\ req' = [req EXCEPT ![p] = in.req]
  /\ IF ~in.ok
     THEN Report(p, rpcParseError, <<"error", "invalid character">>)
     ELSE UNCHANGED <<sink, errCalls>>
  /\ pc' = [pc EXCEPT ![p] = "lookup"]
  /\ UNCHANGED <<h, handler, callParams, i, callResult, calls>>

\* handleReader: decode the envelope, then handle
HandleReader(p, in) ==
  /\ pc[p] = "idle"
  /\ req' = [req EXCEPT ![p] = in.req]
  /\ IF ~in.ok
     THEN /\ Report(p, rpcParseError, <<"error", "invalid character">>)
          /\ pc' = [pc EXCEPT ![p] = "done"]
     ELSE /\ pc' = [pc EXCEPT ![p] = "lookup"]
          /\ UNCHANGED <<sink, errCalls>>
  /\ UNCHANGED <<h, handler, callParams, i, callResult, calls>>

\* handle called with a request
Handle(p, r) ==
  /\ pc[p] = "idle"
  /\ req' = [req EXCEPT ![p] = r]
  /\ pc' = [pc EXCEPT ![p] = "lookup"]
  /\ UNCHANGED <<h, handler, callParams, i, callResult, sink, errCalls, calls>>

\* the lookup with its result kept in a field all dispatches share
Lookup_Shared(p) ==
  /\ pc[p] = "lookup"
  /\ LET l == lookup(h, req[p].Method)
     IN /\ h' = l.tbl
        /\ handler' = [q \in Procs |-> l.handler]
        /\ UNCHANGED req
        /\ IF ~l.ok
           THEN /\ Report(p, rpcMethodNotFound,
                          <<"error", "method '" \o req[p].Method \o "' not found">>)
                /\ pc' = [pc EXCEPT ![p] = "done"]
           ELSE /\ pc' = [pc EXCEPT ![p] = "arity"]
                /\ UNCHANGED <<sink, errCalls>>
  /\ UNCHANGED <<callParams, i, callResult, calls>>

\* handler, ok := h[req.Method]; if !ok { rpcError(...); return }
Lookup(p) ==
  /\ pc[p] = "lookup"
  /\ LET l == lookup(h, req[p].Method)
     IN /\ h' = l.tbl
        /\ handler' = [handler EXCEPT ![p] = l.handler]
        /\ UNCHANGED req
        /\ IF ~l.ok
           THEN /\ Report(p, rpcMethodNotFound,
                          <<"error", "method '" \o req[p].Method \o "' not found">>)
                /\ pc' = [pc EXCEPT ![p] = "done"]
           ELSE /\ pc' = [pc EXCEPT ![p] = "arity"]
                /\ UNCHANGED <<sink, errCalls>>
  /\ UNCHANGED <<callParams, i, callResult, calls>>

\* the arity check with the return after rpcError missing
Arity_NoReturn(p) ==
  /\ pc[p] = "arity"
  /\ UNCHANGED req
  /\ IF arityMismatch(req[p], handler[p])
     THEN Report(p, rpcInvalidParams, <<"error", "wrong param count">>)
     ELSE UNCHANGED <<sink, errCalls>>
  /\ callParams' = [callParams EXCEPT ![p] = makeCallParams(handler[p])]
  /\ pc' = [pc EXCEPT ![p] = IF 0 < handler[p].nParams THEN "decode" ELSE "invoke"]
  /\ UNCHANGED <<h, handler, i, callResult, calls>>

\* the arity check, then the allocation of callParams
Arity(p) ==
  /\ pc[p] = "arity"
  /\ UNCHANGED req
  /\ IF arityMismatch(req[p], handler[p])
     THEN /\ Report(p, rpcInvalidParams, <<"error", "wrong param count">>)
          /\ pc' = [pc EXCEPT ![p] = "done"]
          /\ UNCHANGED callParams
     ELSE /\ callParams' = [callParams EXCEPT ![p] = makeCallParams(handler[p])]
          /\ pc' = [pc EXCEPT ![p] = IF 0 < handler[p].nParams THEN "decode" ELSE "invoke"]
          /\ UNCHANGED <<sink, errCalls>>
  /\ UNCHANGED <<h, handler, i, callResult, calls>>

\* the decode loop with the return after rpcError missing
Decode_NoReturn(p) ==
  /\ pc[p] = "decode"
  /\ UNCHANGED req
  /\ IF i[p] + 1 > Len(req[p].Params)
     THEN /\ pc' = [pc EXCEPT ![p] = "panicked"]
          /\ UNCHANGED <<callParams, i, sink, errCalls>>
     ELSE LET d == decodeParam(req[p], handler[p], i[p])
          IN /\ IF d.err # Nil
                THEN Report(p, rpcParseError, d.err)
                ELSE UNCHANGED <<sink, errCalls>>
             /\ callParams' = [callParams EXCEPT ![p][i[p] + 1 + handler[p].hasCtx + 1] = d.val]
             /\ i' = [i EXCEPT ![p] = @ + 1]
             /\ pc' = [pc EXCEPT ![p] = IF i[p] + 1 < handler[p].nParams THEN "decode" ELSE "invoke"]
  /\ UNCHANGED <<h, handler, callResult, calls>>

\* one turn of: for i := 0; i < handler.nParams; i++ { decode; store }
Decode(p) ==
  /\ pc[p] = "decode"
  /\ UNCHANGED req
  /\ IF i[p] + 1 > Len(req[p].Params)
     THEN \* req.Params[i]: index out of range
          /\ pc' = [pc EXCEPT ![p] = "panicked"]
          /\ UNCHANGED <<callParams, i, sink, errCalls>>
     ELSE LET d == decodeParam(req[p], handler[p], i[p])
          IN IF d.err # Nil
             THEN /\ Report(p, rpcParseError, d.err)
                  /\ pc' = [pc EXCEPT ![p] = "done"]
                  /\ UNCHANGED <<callParams, i>>
             ELSE /\ callParams' = [callParams EXCEPT ![p][i[p] + 1 + handler[p].hasCtx + 1] = d.val]
                  /\ i' = [i EXCEPT ![p] = @ + 1]
                  /\ pc' = [pc EXCEPT ![p] = IF i[p] + 1 < handler[p].nParams THEN "decode" ELSE "invoke"]
                  /\ UNCHANGED <<sink, errCalls>>
  /\ UNCHANGED <<h, handler, callResult, calls>>

\* the call with the notification check moved in front of it
Invoke_NotifyFirst(p) ==
  /\ pc[p] = "invoke"
  /\ IF req[p].ID = Nil
     THEN /\ pc' = [pc EXCEPT ![p] = "done"]
          /\ UNCHANGED <<callResult, calls>>
     ELSE IF handler[p].handlerFunc = Nil
     THEN /\ pc' = [pc EXCEPT ![p] = "panicked"]
          /\ UNCHANGED <<callResult, calls>>
     ELSE /\ \E cr \in callResults(handler[p]) :
               callResult' = [callResult EXCEPT ![p] = cr]
          /\ calls' = [calls EXCEPT ![p] = Append(@, callParams[p])]
          /\ pc' = [pc EXCEPT ![p] = "called"]
  /\ UNCHANGED <<h, req, handler, callParams, i, sink, errCalls>>

\* callResult := handler.handlerFunc.Call(callParams)
Invoke(p) ==
  /\ pc[p] = "invoke"
  /\ IF handler[p].handlerFunc = Nil
     THEN \* Call on the zero Value
          /\ pc' = [pc EXCEPT ![p] = "panicked"]
          /\ UNCHANGED <<callResult, calls>>
     ELSE /\ \E cr \in callResults(handler[p]) :
               callResult' = [callResult EXCEPT ![p] = cr]
          /\ calls' = [calls EXCEPT ![p] = Append(@, callParams[p])]
          /\ pc' = [pc EXCEPT ![p] = "called"]
  /\ UNCHANGED <<h, req, handler, callParams, i, sink, errCalls>>

\* the response numbered by a counter of the answers given so far instead of
\* the request's identifier
Respond_Serial(p) ==
  /\ pc[p] = "called"
  /\ LET n  == Cardinality({q \in Procs : sink[q] # << >>})
         r0 == [req[p] EXCEPT !.ID = IF @ = Nil THEN Nil ELSE <<n>>]
     IN sink' = [sink EXCEPT ![p] = @ \o respond(r0, handler[p], callResult[p])]
  /\ pc' = [pc EXCEPT ![p] = "done"]
  /\ UNCHANGED <<h, req, handler, callParams, i, callResult, errCalls, calls>>

\* the notification check, the response and its encoding
Respond(p) ==
  /\ pc[p] = "called"
  /\ sink' = [sink EXCEPT ![p] = @ \o respond(req[p], handler[p], callResult[p])]
  /\ pc' = [pc EXCEPT ![p] = "done"]
  /\ UNCHANGED <<h, req, handler, callParams, i, callResult, errCalls, calls>>

\* the entry point has returned; the transport drops the request and the sink
Return(p) ==
  /\ pc[p] \in {"done", "panicked"}
  /\ pc' = [pc EXCEPT ![p] = "idle"]
  /\ req' = [req EXCEPT ![p] = ZeroRequest]
  /\ handler' = [handler EXCEPT ![p] = ZeroHandler]
  /\ callParams' = [callParams EXCEPT ![p] = << >>]
  /\ i' = [i EXCEPT ![p] = 0]
  /\ callResult' = [callResult EXCEPT ![p] = << >>]
  /\ sink' = [sink EXCEPT ![p] = << >>]
  /\ errCalls' = [errCalls EXCEPT ![p] = << >>]
  /\ calls' = [calls EXCEPT ![p] = << >>]
  /\ UNCHANGED h

\* the statements of one dispatch after its entry
Step(p) == Lookup(p) \/ Arity(p) \/ Decode(p) \/ Invoke(p) \/ Respond(p)

\* the transport serves one request at a time
Quiet == \A q \in Procs : pc[q] = "idle"

Next ==
  \/ \E namespace \in Namespaces, r \in Objects : Register(namespace, r)
  \/ Quiet /\ \E p \in Procs, in \in Inputs : HandleReader(p, in)
  \/ Quiet /\ \E p \in Procs, r \in Requests : Handle(p, r)
  \/ \E p \in Procs : Lookup(p)
  \/ \E p \in Procs : Arity(p)
  \/ \E p \in Procs : Decode(p)
  \/ \E p \in Procs : Invoke(p)
  \/ \E p \in Procs : Respond(p)
  \/ \E p \in Procs : Return(p)

Spec == Init /\ [][Next]_vars

(* ----------------------- concurrent dispatches ------------------------- *)

\* the table once startup has registered A under "math" and B under "sys"
ServingTable == register(register(<< >>, "math", "A"), "sys", "B")

\* the requests the transport dispatches concurrently: a call and a
\* notification that succeed, a call of the other object, a malformed second
\* parameter, an unknown method
ConcRequests ==
  { [Jsonrpc |-> "2.0", ID |-> <<7>>, Method |-> "math.Add",
     Params |-> <<[data |-> "2"], [data |-> "2"]>>],
    [Jsonrpc |-> "2.0", ID |-> Nil, Method |-> "math.Add",
     Params |-> <<[data |-> "2"], [data |-> "2"]>>],
    [Jsonrpc |-> "2.0", ID |-> <<0>>, Method |-> "sys.Add",
     Params |-> <<[data |-> "\"a\""]>>],
    [Jsonrpc |-> "2.0", ID |-> <<7>>, Method |-> "math.Add",
     Params |-> <<[data |-> "2"], [data |-> "{"]>>],
    [Jsonrpc |-> "2.0", ID |-> <<0>>, Method |-> "math.Subtract", Params |-> << >>] }

ConcInputs ==
  [ok : {TRUE}, req : ConcRequests] \cup [ok : {FALSE}, req : {[ZeroRequest EXCEPT !.ID = <<7>>]}]

InitConc ==
  /\ h = ServingTable
  /\ pc = [p \in Procs |-> "idle"]
  /\ req = [p \in Procs |-> ZeroRequest]
  /\ handler = [p \in Procs |-> ZeroHandler]
  /\ callParams = [p \in Procs |-> << >>]
  /\ i = [p \in Procs |-> 0]
  /\ callResult = [p \in Procs |-> << >>]
  /\ sink = [p \in Procs |-> << >>]
  /\ errCalls = [p \in Procs |-> << >>]
  /\ calls = [p \in Procs |-> << >>]

\* any dispatch may enter and step while others are open; nothing registers
NextConc ==
  \/ \E p \in Procs, in \in ConcInputs : HandleReader(p, in)
  \/ \E p \in Procs, r \in ConcRequests : Handle(p, r)
  \/ \E p \in Procs : Lookup(p)
  \/ \E p \in Procs : Arity(p)
  \/ \E p \in Procs : Decode(p)
  \/ \E p \in Procs : Invoke(p)
  \/ \E p \in Procs : Respond(p)
  \/ \E p \in Procs : Return(p)

SpecConc == InitConc /\ [][NextConc]_vars

\* handle run from its first statement to its return on request r against
\* table tbl, the callable (if it is reached) returning cr
RECURSIVE firstBad(_, _, _)
firstBad(r, hd, idx) ==
  IF idx >= hd.nParams THEN -1
  ELSE IF decodeParam(r, hd, idx).err # Nil THEN idx
  ELSE firstBad(r, hd, idx + 1)

alone(tbl, r, cr) ==
  LET l   == lookup(tbl, r.Method)
      hd  == l.handler
      bad == firstBad(r, hd, 0)
      failed(code, err) ==
        [errs |-> <<[code |-> code, err |-> err]>>, sink |-> rpcError(r, code, err), called |-> FALSE]
  IN IF ~l.ok
     THEN failed(rpcMethodNotFound, <<"error", "method '" \o r.Method \o "' not found">>)
     ELSE IF arityMismatch(r, hd)
     THEN failed(rpcInvalidParams, <<"error", "wrong param count">>)
     ELSE IF bad # -1
     THEN failed(rpcParseError, decodeParam(r, hd, bad).err)
     ELSE [errs |-> << >>, sink |-> respond(r, hd, cr), called |-> TRUE]

(* ------------------------------ properties ----------------------------- *)

\* dispatch p was given a decoded request
Dispatching(p) == req[p] \in Requests
\* dispatch p has come to its end
Ended(p) == pc[p] \in {"done", "panicked"}
\* the descriptor the table holds for p's request
Target(p) == h[req[p].Method]
\* the callable of dispatch p gave a non-nil error
HandlerFailed(p) ==
  /\ calls[p] # << >>
  /\ pc[p] \in {"called", "done"}
  /\ handler[p].errOut # -1
  /\ callResult[p][handler[p].errOut + 1] # Nil
\* a response with at most one of result and error
WellFormed(w) ==
  /\ {"jsonrpc", "id"} \subseteq DOMAIN w
  /\ w.jsonrpc = "2.0"
  /\ ~({"result", "error"} \subseteq DOMAIN w)
\* every parameter of p's request decodes into its declared type
AllDecode(p) ==
  \A k \in 1..Len(req[p].Params) :
    jsonDecode(Target(p).paramReceivers[k], req[p].Params[k].data).err = Nil

\* C1: every response in a sink carries at most one of result and error, and
\* when the callable's error return is non-nil the response handle writes
\* carries the error and no result.
C1_ResultErrorExclusive ==
  \A p \in Procs :
    /\ \A k \in 1..Len(sink[p]) : ~({"result", "error"} \subseteq DOMAIN sink[p][k])
    /\ (pc[p] = "done" /\ HandlerFailed(p) /\ req[p].ID # Nil)
         => /\ Len(sink[p]) = 1
            /\ "error" \in DOMAIN sink[p][1]
            /\ "result" \notin DOMAIN sink[p][1]

\* C2: a dispatch whose request has no identifier never writes to its sink.
C2_NotificationSilent ==
  \A p \in Procs : (Dispatching(p) /\ req[p].ID = Nil) => sink[p] = << >>

\* a notification whose callable ran and reported an error has returned
C2_Witness ==
  \E p \in Procs :
    /\ Dispatching(p) /\ req[p].ID = Nil
    /\ pc[p] = "done" /\ HandlerFailed(p)

\* C3: a request whose method is not in the table ends at the lookup with one
\* method-not-found report, whatever its parameters: nothing is decoded and
\* no callable is invoked.
C3_MethodNotFound ==
  \A p \in Procs :
    (Dispatching(p) /\ pc[p] \notin {"idle", "lookup"} /\ req[p].Method \notin DOMAIN h)
      => /\ pc[p] = "done"
         /\ Len(errCalls[p]) = 1
         /\ errCalls[p][1].code = rpcMethodNotFound
         /\ errCalls[p][1].err = <<"error", "method '" \o req[p].Method \o "' not found">>
         /\ calls[p] = << >>
         /\ i[p] = 0
         /\ callParams[p] = << >>

\* an unknown method was asked of a non-empty table with two parameters, one
\* of them malformed
C3_Witness ==
  \E p \in Procs :
    /\ Dispatching(p) /\ pc[p] = "done"
    /\ h # << >>
    /\ req[p].Method \notin DOMAIN h
    /\ Len(req[p].Params) = 2
    /\ req[p].Params[2].data = "{"

\* C4: a request for a registered method with a parameter count other than
\* nParams ends with one invalid-params report, no panic, no decoded
\* parameter and no invocation; one with nParams decodable parameters is
\* invoked.
C4_Arity ==
  \A p \in Procs :
    (Dispatching(p) /\ req[p].Method \in DOMAIN h) =>
      /\ (Len(req[p].Params) # Target(p).nParams /\ pc[p] \notin {"idle", "lookup", "arity"})
           => /\ pc[p] = "done"
              /\ Len(errCalls[p]) = 1
              /\ errCalls[p][1].code = rpcInvalidParams
              /\ calls[p] = << >>
              /\ i[p] = 0
              /\ callParams[p] = << >>
      /\ (Len(req[p].Params) = Target(p).nParams /\ AllDecode(p) /\ Ended(p))
           => /\ pc[p] = "done"
              /\ errCalls[p] = << >>
              /\ Len(calls[p]) = 1

\* a registered method with at least one parameter was asked with one
\* parameter too many
C4_Witness ==
  \E p \in Procs :
    /\ Dispatching(p) /\ pc[p] = "done"
    /\ req[p].Method \in DOMAIN h
    /\ Target(p).nParams >= 1
    /\ Len(req[p].Params) = Target(p).nParams + 1

\* C5: a request with the right parameter count in which some parameter does
\* not decode into its declared type ends with one parse-error report and its
\* callable is never invoked.
C5_ParamParseError ==
  \A p \in Procs :
    (/\ Dispatching(p) /\ req[p].Method \in DOMAIN h
     /\ Len(req[p].Params) = Target(p).nParams
     /\ ~AllDecode(p))
      => /\ calls[p] = << >>
         /\ pc[p] \notin {"invoke", "called", "panicked"}
         /\ pc[p] = "done"
              => /\ Len(errCalls[p]) = 1
                 /\ errCalls[p][1].code = rpcParseError
         /\ pc[p] # "done" => errCalls[p] = << >>

\* the second of two parameters failed to decode after the first had decoded
C5_Witness ==
  \E p \in Procs :
    /\ Dispatching(p) /\ pc[p] = "done"
    /\ req[p].Method \in DOMAIN h
    /\ Target(p).nParams = 2 /\ Len(req[p].Params) = 2
    /\ i[p] = 1
    /\ errCalls[p] # << >>

\* C6: a dispatch whose request has an identifier ends, without a panic,
\* having written exactly one well-formed response.
C6_OneWellFormedResponse ==
  \A p \in Procs :
    (Ended(p) /\ req[p].ID # Nil)
      => /\ pc[p] = "done"
         /\ Len(sink[p]) = 1
         /\ WellFormed(sink[p][1])

\* C7: one dispatch writes at most one response to its sink.
C7_AtMostOneResponse ==
  \A p \in Procs : Len(sink[p]) <= 1

\* a dispatch has returned after an error report that was answered, and
\* nothing else was written
C7_Witness ==
  \E p \in Procs :
    /\ Dispatching(p) /\ pc[p] = "done"
    /\ errCalls[p] # << >>
    /\ Len(sink[p]) = 1

\* C8: when the callable's error return is non-nil and the request has an
\* identifier, the one response written carries the error object with code 1
\* and the error's text as its message.
C8_HandlerError ==
  \A p \in Procs :
    (pc[p] = "done" /\ HandlerFailed(p) /\ req[p].ID # Nil)
      => /\ Len(sink[p]) = 1
         /\ "error" \in DOMAIN sink[p][1]
         /\ sink[p][1].error =
              [code |-> 1, message |-> callResult[p][handler[p].errOut + 1][2]]

\* an error-only callable failed with the text "boom" and was answered
C8_Witness ==
  \E p \in Procs :
    /\ pc[p] = "done" /\ HandlerFailed(p) /\ req[p].ID # Nil
    /\ handler[p].valOut = -1
    /\ callResult[p][handler[p].errOut + 1] = <<"error", "boom">>
    /\ sink[p] # << >>

\* C9: every response handle itself writes has the identifier of the request
\* and the version tag "2.0".
C9_EchoID ==
  \A p \in Procs :
    (Dispatching(p) /\ errCalls[p] = << >>)
      => \A k \in 1..Len(sink[p]) :
           /\ sink[p][k].id = req[p].ID[1]
           /\ sink[p][k].jsonrpc = "2.0"

\* handle answered a request whose identifier is 7
C9_Witness ==
  \E p \in Procs :
    /\ Dispatching(p) /\ pc[p] = "done" /\ errCalls[p] = << >>
    /\ req[p].ID = <<7>>
    /\ Len(sink[p]) = 1

\* a step of dispatch p: an entry (with the input the step shows it took) or
\* a statement of handle
Dispatch(p) ==
  \/ LET in == [ok |-> pc'[p] = "lookup", req |-> req'[p]]
     IN in \in Inputs /\ HandleReader(p, in)
  \/ req'[p] \in Requests /\ Handle(p, req'[p])
  \/ Step(p)

\* C10: no step of a dispatch changes the table.
C10_TableReadOnly ==
  [][(\E p \in Procs : Dispatch(p)) => h' = h]_vars

\* a miss and a completed call have both been served from a non-empty table
C10_Witness ==
  \E p \in Procs :
    /\ h # << >>
    /\ Dispatching(p) /\ pc[p] = "done"
    /\ req[p].Method \notin DOMAIN h

\* what dispatch p has shown of itself: its error reports, its sink, and
\* whether its callable ran
Outcome(p) ==
  [errs   |-> [k \in 1..Len(errCalls[p]) |-> [code |-> errCalls[p][k].code, err |-> errCalls[p][k].err]],
   sink   |-> sink[p],
   called |-> calls[p] # << >>]

\* C11: with dispatches interleaved on one table and no registration, every
\* dispatch that has returned shows the outcome handle gives that request when
\* run alone.
C11_SameAsAlone ==
  \A p \in Procs :
    (Dispatching(p) /\ pc[p] = "done")
      => /\ Outcome(p) = alone(h, req[p], callResult[p])
         /\ Len(calls[p]) <= 1

\* a dispatch has answered while another, on a different request, stood
\* between its lookup and its response
C11_Witness ==
  \E p, q \in Procs :
    /\ p # q
    /\ Dispatching(p) /\ pc[p] = "done" /\ sink[p] # << >>
    /\ Dispatching(q) /\ pc[q] \in {"arity", "decode", "invoke", "called"}
    /\ req[q].Method # req[p].Method

\* the keys a registration of r under namespace writes
KeysOf(namespace, r) == {namespace \o "." \o MethodsOf(r)[k].Name : k \in 1..Len(MethodsOf(r))}

\* C12: a registration of r under a namespace leaves the table with the old
\* keys and one key namespace.Name per method of r; each such key holds the
\* descriptor of r's method, also where an earlier registration had put
\* another, and every other entry is as it was.
C12_RegisterMerges ==
  [][\A namespace \in Namespaces, r \in Objects :
       Register(namespace, r) =>
         /\ DOMAIN h' = DOMAIN h \cup KeysOf(namespace, r)
         /\ Cardinality(KeysOf(namespace, r)) = Len(MethodsOf(r))
         /\ \A k \in 1..Len(MethodsOf(r)) :
              h'[namespace \o "." \o MethodsOf(r)[k].Name] = descriptor(r, MethodsOf(r)[k])
         /\ \A key \in DOMAIN h \ KeysOf(namespace, r) : h'[key] = h[key]]_vars

\* B was registered under "math" after A: math.Add is B's, A's other methods
\* are still there, and another namespace holds entries too
C12_Witness ==
  /\ {"math.Add", "math.Get", "math.Ping", "math.Put"} \subseteq DOMAIN h
  /\ h["math.Add"].handlerFunc = <<"B", "Add">>
  /\ h["math.Get"].handlerFunc = <<"A", "Get">>
  /\ "sys.Add" \in DOMAIN h

\* C13: two dispatches of the same request against the same table whose
\* callable returned the same values have written the same bytes and made the
\* same error reports.
C13_Deterministic ==
  \A p, q \in Procs :
    (/\ Dispatching(p) /\ pc[p] = "done"
     /\ pc[q] = "done"
     /\ req[q] = req[p]
     /\ callResult[q] = callResult[p])
      => /\ sink[q] = sink[p]
         /\ Outcome(q) = Outcome(p)

\* the same call was dispatched twice, the callable returned the same value
\* both times, and both were answered
C13_Witness ==
  \E p, q \in Procs :
    /\ p # q
    /\ Dispatching(p) /\ pc[p] = "done" /\ pc[q] = "done"
    /\ req[q] = req[p]
    /\ calls[p] # << >> /\ calls[q] # << >>
    /\ callResult[q] = callResult[p]
    /\ sink[p] # << >>

\* p's request names a registered method with the right number of parameters,
\* all of which decode
Callable(p) ==
  /\ Dispatching(p)
  /\ req[p].Method \in DOMAIN h
  /\ Len(req[p].Params) = Target(p).nParams
  /\ AllDecode(p)

\* C14: a notification that names a registered method with the right
\* decodable parameters has, when handle returns, had its callable invoked
\* exactly once; the check of the identifier comes after the call, so the
\* callable has run by the time handle stands at that check.
C14_NotificationInvoked ==
  \A p \in Procs :
    (Callable(p) /\ req[p].ID = Nil) =>
      /\ pc[p] \in {"called", "done"} => Len(calls[p]) = 1
      /\ pc[p] \in {"lookup", "arity", "decode", "invoke"} => calls[p] = << >>
      /\ pc[p] # "panicked"

\* a notification with two parameters has returned after its call
C14_Witness ==
  \E p \in Procs :
    /\ Callable(p) /\ req[p].ID = Nil
    /\ pc[p] = "done"
    /\ Len(req[p].Params) = 2
    /\ Len(calls[p]) = 1

\* the order of handle's steps: from each position, the positions the next
\* statement may lead to
Order ==
  { <<"idle", "lookup">>, <<"idle", "done">>,
    <<"lookup", "arity">>, <<"lookup", "done">>,
    <<"arity", "decode">>, <<"arity", "invoke">>, <<"arity", "done">>,
    <<"decode", "decode">>, <<"decode", "invoke">>, <<"decode", "done">>,
    <<"invoke", "called">>, <<"called", "done">>,
    <<"done", "idle">> }

\* dispatch p stopped at its first failure
StoppedAtFirstFailure(p) ==
  /\ Len(errCalls[p]) <= 1
  /\ errCalls[p] # << >> =>
       /\ pc[p] = "done"
       /\ calls[p] = << >>
       /\ callResult[p] = << >>
       /\ sink[p] = rpcError(req[p], errCalls[p][1].code, errCalls[p][1].err)
       /\ (Dispatching(p) /\ errCalls[p][1].code = rpcParseError) =>
            /\ \A k \in 1..i[p] :
                 jsonDecode(handler[p].paramReceivers[k], req[p].Params[k].data).err = Nil
            /\ errCalls[p][1].err =
                 jsonDecode(handler[p].paramReceivers[i[p] + 1], req[p].Params[i[p] + 1].data).err
            /\ errCalls[p][1].err # Nil
       /\ (Dispatching(p) /\ errCalls[p][1].code = rpcInvalidParams) => i[p] = 0
       /\ (Dispatching(p) /\ errCalls[p][1].code = rpcMethodNotFound) =>
            handler[p] = ZeroHandler /\ i[p] = 0

\* C15: the steps of a dispatch run in the order lookup, arity check, decode
\* by increasing position, invoke, response; the first failing step makes the
\* one error report and ends the dispatch: no later parameter is decoded, the
\* callable is not invoked and handle encodes no response.
C15_TerminalAtFirstFailure ==
  [][\A p \in Procs :
       /\ pc'[p] # pc[p] => <<pc[p], pc'[p]>> \in Order
       /\ (pc[p] = "decode" /\ pc'[p] = "decode") => i'[p] = i[p] + 1
       /\ i'[p] # i[p] => (pc[p] = "decode" /\ i'[p] = i[p] + 1) \/ pc'[p] = "idle"
       /\ StoppedAtFirstFailure(p)']_vars

\* both parameters of a call were malformed and only position 0 was reported
C15_Witness ==
  \E p \in Procs :
    /\ Dispatching(p) /\ pc[p] = "done"
    /\ req[p].Method \in DOMAIN h
    /\ Len(req[p].Params) = 2 /\ Target(p).nParams = 2
    /\ \A k \in 1..2 :
         jsonDecode(Target(p).paramReceivers[k], req[p].Params[k].data).err # Nil
    /\ req[p].Params[1].data # req[p].Params[2].data
    /\ i[p] = 0
    /\ Len(errCalls[p]) = 1

\* C16: the argument list the callable is invoked with holds the receiver at
\* position 0, the caller's context at position 1 iff the descriptor expects
\* one, and then the decoded parameters in wire order, parameter k at position
\* k + 1 + hasCtx; it has 1 + hasCtx + nParams entries and none is unfilled.
C16_CallArguments ==
  \A p \in Procs :
    \A c \in 1..Len(calls[p]) :
      LET args == calls[p][c]
          hd   == handler[p]
      IN /\ Len(args) = 1 + hd.hasCtx + hd.nParams
         /\ args[1] = hd.receiver
         /\ hd.hasCtx = 1 => args[2] = ctx
         /\ hd.hasCtx = 0 => \A k \in 1..Len(args) : args[k] # ctx
         /\ \A k \in 0..(hd.nParams - 1) :
              args[k + 1 + hd.hasCtx + 1] =
                jsonDecode(hd.paramReceivers[k + 1], req[p].Params[k + 1].data).val
         /\ \A k \in 1..Len(args) : args[k] # Nil

\* a callable that expects a context and two parameters of different types
\* was invoked
C16_Witness ==
  \E p \in Procs :
    /\ Len(calls[p]) = 1
    /\ handler[p].hasCtx = 1
    /\ handler[p].nParams = 2
    /\ calls[p][1][3] # calls[p][1][4]

\* the envelope dispatch p read did not decode
DecodeFailed(p) == pc[p] # "idle" /\ ~Dispatching(p)

\* C17: when the bytes do not decode into a request, handleReader makes one
\* parse-error report against the envelope as far as it was filled and
\* returns: no lookup in the table, no decode of a parameter, no call.
C17_EnvelopeParseError ==
  \A p \in Procs :
    DecodeFailed(p) =>
      /\ pc[p] = "done"
      /\ Len(errCalls[p]) = 1
      /\ errCalls[p][1].code = rpcParseError
      /\ errCalls[p][1].req = req[p]
      /\ errCalls[p][1].w = p
      /\ handler[p] = ZeroHandler
      /\ callParams[p] = << >>
      /\ i[p] = 0
      /\ calls[p] = << >>

\* undecodable bytes were read while the table held entries, and handleReader
\* has returned
C17_Witness ==
  /\ h # << >>
  /\ \E p \in Procs :
       /\ DecodeFailed(p)
       /\ pc[p] = "done"
       /\ req[p] \in {ZeroRequest, [ZeroRequest EXCEPT !.ID = <<7>>]}

\* the declared inputs (receiver first) of the method a descriptor was made for
DeclaredIn(d) ==
  LET ms == MethodsOf(d.handlerFunc[1])
  IN ms[CHOOSE k \in 1..Len(ms) : ms[k].Name = d.handlerFunc[2]].In

\* C18: every descriptor in the table has nParams = Len(paramReceivers) =
\* (number of declared inputs) - 1 - hasCtx >= 0 with hasCtx 0 or 1; hasCtx is
\* 1 exactly when there is an input after the receiver and the first such
\* input is the context type; paramReceivers are the inputs after the
\* receiver and that leading context, in declared order.
C18_DescriptorShape ==
  \A key \in DOMAIN h :
    LET d  == h[key]
        In == DeclaredIn(d)
    IN /\ d.hasCtx \in {0, 1}
       /\ d.nParams >= 0
       /\ d.nParams = Len(d.paramReceivers)
       /\ d.nParams = Len(In) - 1 - d.hasCtx
       /\ d.hasCtx = 1 <=> (Len(In) >= 2 /\ In[2] = contextType)
       /\ \A k \in 1..d.nParams : d.paramReceivers[k] = In[k + 1 + d.hasCtx]

\* the table holds descriptors of a method with a context and parameters, of
\* one with a context only, and of one with no input at all
C18_Witness ==
  /\ \E key \in DOMAIN h : h[key].hasCtx = 1 /\ h[key].nParams = 2
  /\ \E key \in DOMAIN h : h[key].hasCtx = 1 /\ h[key].nParams = 0
  /\ \E key \in DOMAIN h : h[key].hasCtx = 0 /\ h[key].nParams = 0

\* C19: a dispatch that returned from handle without reaching the call made
\* exactly one call of the error callback, with its own sink and its own
\* request and one of the three pre-invocation codes, whether or not the
\* request has an identifier; the sink holds nothing but what that callback
\* wrote.
C19_OneCallbackCall ==
  \A p \in Procs :
    (Dispatching(p) /\ pc[p] = "done" /\ calls[p] = << >>)
      => /\ Len(errCalls[p]) = 1
         /\ errCalls[p][1].w = p
         /\ errCalls[p][1].req = req[p]
         /\ errCalls[p][1].code \in {rpcMethodNotFound, rpcInvalidParams, rpcParseError}
         /\ errCalls[p][1].code = rpcMethodNotFound <=> req[p].Method \notin DOMAIN h
         /\ sink[p] = rpcError(req[p], errCalls[p][1].code, errCalls[p][1].err)

\* a notification failed its arity check and the callback was called for it
C19_Witness ==
  \E p \in Procs :
    /\ Dispatching(p) /\ pc[p] = "done" /\ calls[p] = << >>
    /\ req[p].ID = Nil
    /\ Len(errCalls[p]) = 1
    /\ errCalls[p][1].code = rpcInvalidParams

\* the callable of dispatch p ran and reported no error
HandlerSucceeded(p) ==
  /\ calls[p] # << >>
  /\ pc[p] = "done"
  /\ handler[p].errOut = -1 \/ callResult[p][handler[p].errOut + 1] = Nil

\* C20: for a request with an identifier whose callable reported no error (or
\* has no error output), the one response written has only the version tag
\* and the echoed id when the descriptor has no value output, and otherwise
\* has, besides them, the result equal to the return value at valOut and no
\* error.
C20_SuccessResponse ==
  \A p \in Procs :
    (HandlerSucceeded(p) /\ req[p].ID # Nil)
      => /\ Len(sink[p]) = 1
         /\ sink[p][1].jsonrpc = "2.0"
         /\ sink[p][1].id = req[p].ID[1]
         /\ handler[p].valOut = -1 => DOMAIN sink[p][1] = {"jsonrpc", "id"}
         /\ handler[p].valOut # -1 =>
              /\ DOMAIN sink[p][1] = {"jsonrpc", "id", "result"}
              /\ sink[p][1].result = callResult[p][handler[p].valOut + 1]

\* a callable whose value output comes after its error output returned a nil
\* error and the value 0, and was answered
C20_Witness ==
  \E p \in Procs :
    /\ HandlerSucceeded(p) /\ req[p].ID # Nil
    /\ handler[p].errOut = 0 /\ handler[p].valOut = 1
    /\ callResult[p][2] = <<"int", "0">>
    /\ sink[p] # << >>

====
